---- MODULE Spec2Model ----
(***************************************************************************)
(* Model of tools/drawer-ocr/detect_drawers.py: the drawer-label pipeline  *)
(* (catalog fetch, layout selection, ArUco corner detection, perspective   *)
(* rectification, label candidates, grid mapping, OCR, results file).      *)
(*                                                                         *)
(* Numbers.  The grid mapper works on Python floats: unit sizes are        *)
(* W/columns and H/rows, centres are halves, the margin is a product with  *)
(* 0.3.  The model computes the same quantities as exact rationals, held   *)
(* as integers in units of 1/Scale(layout) pixel, Scale = 20*columns*rows, *)
(* which makes every division of the function exact.  Rounding of IEEE     *)
(* doubles is not modelled.  A label's cx, cy are held in half pixels      *)
(* (cx = 2*x + w stands for x + w/2).                                      *)
(***************************************************************************)
EXTENDS Integers, Sequences, FiniteSets, TLC

VARIABLES
    pc,            \* position of the run
    args,          \* parsed command line (parse_args)
    templates,     \* result of fetch_layout_templates
    layout,        \* selected layout template
    img,           \* result of cv2.imread
    corners,       \* result of find_aruco_markers
    case_bounds,   \* bounds returned by perspective_transform
    labels,        \* candidates returned by find_white_labels
    drawer_sizes,  \* result of fetch_drawer_sizes
    grid_labels,   \* Grid Assignment: (row, col) -> index of the label in labels
    grid_info,     \* second value returned by assign_labels_to_grid
    results,       \* the results list of main()
    files,         \* files and directories written so far
    steps,         \* pipeline steps that have taken place so far
    ocr,           \* for each cell: the responses of the text-extraction calls made for it
    detections,    \* what detectMarkers returned in each of the four passes
    results_file,  \* content of ocr_results.json, None while not written
    exit_status    \* process exit status, None while running

vars == << pc, args, templates, layout, img, corners, case_bounds, labels,
           drawer_sizes, grid_labels, grid_info, results, files, steps, ocr,
           detections, results_file, exit_status >>

\* A value that may be None is held as None or Some(v)
None == [some |-> FALSE]

Some(v) == [some |-> TRUE, val |-> v]

(***************************************************************************)
(* Bounds of the model                                                     *)
(***************************************************************************)
MaxCells == 2     \* Cell Definitions per layout
MaxLabels == 2    \* candidates per list
GridW == 24       \* width of the rectified bounds given to the mapper
GridH == 16      \* height of the rectified bounds given to the mapper

(***************************************************************************)
(* assign_labels_to_grid                                                   *)
(***************************************************************************)
Max(a, b) == IF a >= b THEN a ELSE b

EmptyDict == [k \in {} |-> 0]

\* d[key] = val on a dict kept as a sequence of <<key, value>> in insertion
\* order: an existing key keeps its place, a new key goes last
DictPut(d, key, val) ==
    IF \E i \in DOMAIN d : d[i][1] = key
    THEN [i \in DOMAIN d |-> IF d[i][1] = key THEN <<key, val>> ELSE d[i]]
    ELSE Append(d, <<key, val>>)

DictKeys(d) == {d[i][1] : i \in DOMAIN d}

DictGet(d, key) == d[CHOOSE i \in DOMAIN d : d[i][1] = key][2]

\* size_map = {size['name']: size for size in drawer_sizes}: the last entry
\* of a name wins
size_map(sizes) ==
    [n \in {sizes[i].name : i \in DOMAIN sizes} |->
        sizes[CHOOSE i \in DOMAIN sizes :
                 /\ sizes[i].name = n
                 /\ \A j \in DOMAIN sizes : sizes[j].name = n => j <= i]]

\* number of model units in one pixel
Scale(lay) == 20 * lay.columns * lay.rows

\* unit_width = grid_width / grid_cols, unit_height = grid_height / grid_rows
unit_width(bounds, lay) == ((bounds[3] - bounds[1]) * Scale(lay)) \div lay.columns

unit_height(bounds, lay) == ((bounds[4] - bounds[2]) * Scale(lay)) \div lay.rows

\* DrawerBounds without the conversion of the 1-indexed row and column
DrawerBoundsOneIndexed(bounds, lay, size_info, row, col) ==
    LET left   == bounds[1] * Scale(lay) + col * unit_width(bounds, lay)
        top    == bounds[2] * Scale(lay) + row * unit_height(bounds, lay)
        right  == left + size_info.widthUnits * unit_width(bounds, lay)
        bottom == top + size_info.heightUnits * unit_height(bounds, lay)
    IN  [left |-> left, top |-> top, right |-> right, bottom |-> bottom,
         width |-> right - left, height |-> bottom - top,
         center_x |-> (left + right) \div 2,
         center_y |-> (top + bottom) \div 2]

\* the pixel boundaries of one drawer
DrawerBounds(bounds, lay, size_info, row, col) ==
    LET left   == bounds[1] * Scale(lay) + (col - 1) * unit_width(bounds, lay)
        top    == bounds[2] * Scale(lay) + (row - 1) * unit_height(bounds, lay)
        right  == left + size_info.widthUnits * unit_width(bounds, lay)
        bottom == top + size_info.heightUnits * unit_height(bounds, lay)
    IN  [left |-> left, top |-> top, right |-> right, bottom |-> bottom,
         width |-> right - left, height |-> bottom - top,
         center_x |-> (left + right) \div 2,
         center_y |-> (top + bottom) \div 2]

\* drawer_boundaries giving a drawer of unknown size a 1x1-unit boundary
RECURSIVE drawer_boundaries_default(_, _, _, _)
drawer_boundaries_default(bounds, lay, smap, n) ==
    IF n = 0 THEN << >>
    ELSE LET prev   == drawer_boundaries_default(bounds, lay, smap, n - 1)
             drawer == lay.layoutData[n]
         IN  DictPut(prev, <<drawer.row, drawer.col>>,
                     DrawerBounds(bounds, lay,
                                  IF drawer.size \in DOMAIN smap
                                  THEN smap[drawer.size]
                                  ELSE [widthUnits |-> 1, heightUnits |-> 1],
                                  drawer.row, drawer.col))

\* the loop over layout_data: drawer_boundaries after its first n drawers;
\* a drawer whose size name is not in size_map is skipped
RECURSIVE drawer_boundaries(_, _, _, _)
drawer_boundaries(bounds, lay, smap, n) ==
    IF n = 0 THEN << >>
    ELSE LET prev   == drawer_boundaries(bounds, lay, smap, n - 1)
             drawer == lay.layoutData[n]
         IN  IF drawer.size \notin DOMAIN smap
             THEN prev
             ELSE DictPut(prev, <<drawer.row, drawer.col>>,
                          DrawerBounds(bounds, lay, smap[drawer.size],
                                       drawer.row, drawer.col))

\* a label's centre in model units
CxOf(label, lay) == label.cx * (Scale(lay) \div 2)

CyOf(label, lay) == label.cy * (Scale(lay) \div 2)

\* distance = dx * dx + dy * dy, in units of (10/Scale)^2 square pixels
Distance(cx, cy, b) ==
    LET dx == (cx - b.center_x) \div 10
        dy == (cy - b.center_y) \div 10
    IN  dx * dx + dy * dy

\* 'if distance < min_distance'
Closer(distance, min_distance) == distance < min_distance

\* the scan for the closest drawer over the first n entries of
\* drawer_boundaries: <<best_position, min_distance>>
RECURSIVE best_position(_, _, _, _)
best_position(cx, cy, db, n) ==
    IF n = 0 THEN None
    ELSE LET prev     == best_position(cx, cy, db, n - 1)
             distance == Distance(cx, cy, db[n][2])
         IN  IF prev = None \/ Closer(distance, prev.val[2])
             THEN Some(<<db[n][1], distance>>)
             ELSE prev

\* Margin taking the smaller of the width and height
MarginOfSmallerSide(b) ==
    ((IF b.width <= b.height THEN b.width ELSE b.height) * 3) \div 10

\* margin = max(bounds['width'], bounds['height']) * 0.3
Margin(b) == (Max(b.width, b.height) * 3) \div 10

\* WithinMargin without the test of the top and bottom
WithinMarginHorizontal(cx, cy, b) ==
    /\ b.left - Margin(b) <= cx
    /\ cx <= b.right + Margin(b)

\* the test that the label centre is within or very close to the drawer
WithinMargin(cx, cy, b) ==
    /\ b.left - Margin(b) <= cx
    /\ cx <= b.right + Margin(b)
    /\ b.top - Margin(b) <= cy
    /\ cy <= b.bottom + Margin(b)

\* Replaces that never takes a cell from its holder
ReplacesFirstCome(g, pos, label, labs) == pos \notin DOMAIN g

\* Replaces with >= for >
ReplacesOnTie(g, pos, label, labs) ==
    \/ pos \notin DOMAIN g
    \/ label.area >= labs[g[pos]].area

\* 'best_position not in grid_labels or label['area'] > ...['area']'
Replaces(g, pos, label, labs) ==
    \/ pos \notin DOMAIN g
    \/ label.area > labs[g[pos]].area

\* AssignLoop without the search for the closest drawer: a label goes to
\* every drawer whose margin test it passes
RECURSIVE AssignLoopEveryCell(_, _, _, _)
AssignLoopEveryCell(labs, lay, db, n) ==
    IF n = 0 THEN EmptyDict
    ELSE LET g   == AssignLoopEveryCell(labs, lay, db, n - 1)
             cx  == CxOf(labs[n], lay)
             cy  == CyOf(labs[n], lay)
             hit == {db[p][1] : p \in {q \in DOMAIN db :
                                        /\ WithinMargin(cx, cy, db[q][2])
                                        /\ Replaces(g, db[q][1], labs[n], labs)}}
         IN  [k \in DOMAIN g \cup hit |-> IF k \in hit THEN n ELSE g[k]]

\* the loop over labels: grid_labels after the first n labels.  A value of
\* grid_labels is the index in labs of the label object the dict refers to.
RECURSIVE AssignLoop(_, _, _, _)
AssignLoop(labs, lay, db, n) ==
    IF n = 0 THEN EmptyDict
    ELSE LET g     == AssignLoop(labs, lay, db, n - 1)
             cx    == CxOf(labs[n], lay)
             cy    == CyOf(labs[n], lay)
             found == best_position(cx, cy, db, Len(db))
             best  == found.val[1]
         IN  IF /\ found # None
                /\ WithinMargin(cx, cy, DictGet(db, best))
                /\ Replaces(g, best, labs[n], labs)
             THEN [k \in DOMAIN g \cup {best} |-> IF k = best THEN n ELSE g[k]]
             ELSE g

\* assign_labels_to_grid without the early return on an empty list
assign_labels_to_grid_always(labs, bounds, lay, sizes) ==
    IF sizes = None
    THEN [raised |-> TRUE, grid_labels |-> EmptyDict, grid_info |-> None]
    ELSE LET db == drawer_boundaries(bounds, lay, size_map(sizes.val),
                                     Len(lay.layoutData))
         IN  [raised |-> FALSE,
              grid_labels |-> AssignLoop(labs, lay, db, Len(labs)),
              grid_info |-> Some(
                            [left |-> bounds[1] * Scale(lay),
                             top |-> bounds[2] * Scale(lay),
                             right |-> bounds[3] * Scale(lay),
                             bottom |-> bounds[4] * Scale(lay),
                             unit_width |-> unit_width(bounds, lay),
                             unit_height |-> unit_height(bounds, lay),
                             columns |-> lay.columns,
                             rows |-> lay.rows,
                             drawer_boundaries |-> db])]

\* the whole function.  raised: the dict comprehension over drawer_sizes
\* raises TypeError when drawer_sizes is None.
assign_labels_to_grid(labs, bounds, lay, sizes) ==
    IF labs = << >>
    THEN [raised |-> FALSE, grid_labels |-> EmptyDict, grid_info |-> None]
    ELSE IF sizes = None
    THEN [raised |-> TRUE, grid_labels |-> EmptyDict, grid_info |-> None]
    ELSE LET db == drawer_boundaries(bounds, lay, size_map(sizes.val),
                                     Len(lay.layoutData))
         IN  [raised |-> FALSE,
              grid_labels |-> AssignLoop(labs, lay, db, Len(labs)),
              grid_info |-> Some(
                            [left |-> bounds[1] * Scale(lay),
                             top |-> bounds[2] * Scale(lay),
                             right |-> bounds[3] * Scale(lay),
                             bottom |-> bounds[4] * Scale(lay),
                             unit_width |-> unit_width(bounds, lay),
                             unit_height |-> unit_height(bounds, lay),
                             columns |-> lay.columns,
                             rows |-> lay.rows,
                             drawer_boundaries |-> db])]

(***************************************************************************)
(* Inputs of the grid mapper                                               *)
(***************************************************************************)
\* the size catalog: 1x1 and 2x1 units
SizeCatalog ==
    << [name |-> "standard", widthUnits |-> 1, heightUnits |-> 1],
       [name |-> "wide", widthUnits |-> 2, heightUnits |-> 1] >>

\* size names of the layouts given to the mapper
SizeNames == {"standard", "wide"}

\* the dict find_white_labels builds for a kept contour
MakeLabel(x, y, w, h, area) ==
    [x |-> x, y |-> y, w |-> w, h |-> h,
     cx |-> 2 * x + w, cy |-> 2 * y + h, area |-> area]

\* candidates: 2x2 boxes at these x and y, of these areas
CandX == {5, 14}
CandY == {3, 11}
CandArea == {500, 900}

Candidates == {MakeLabel(x, y, 2, 2, a) : x \in CandX, y \in CandY, a \in CandArea}

SeqsUpTo(S, n) == UNION {[1..k -> S] : k \in 0..n}

DistinctPositions(ld) ==
    \A i, j \in DOMAIN ld :
        (ld[i].row = ld[j].row /\ ld[i].col = ld[j].col) => i = j

\* grids, as <<columns, rows>>
Shapes == { <<1, 1>>, <<1, 2>>, <<3, 1>>, <<2, 2>> }

\* layouts: a grid and up to MaxCells Cell Definitions at distinct positions
\* of the grid
Layouts ==
    UNION {{[name |-> << >>, columns |-> sh[1], rows |-> sh[2], layoutData |-> ld] :
              ld \in {s \in SeqsUpTo([row : 1..sh[2], col : 1..sh[1], size : SizeNames],
                                     MaxCells) : DistinctPositions(s)}} :
           sh \in Shapes}

(***************************************************************************)
(* The grid mapper on its own: SpecGrid                                    *)
(***************************************************************************)
InitGrid ==
    /\ pc = "mapper_input"
    /\ labels \in SeqsUpTo(Candidates, MaxLabels)
    /\ layout \in {Some(l) : l \in Layouts}
    /\ case_bounds = <<0, 0, GridW, GridH>>
    /\ drawer_sizes = Some(SizeCatalog)
    /\ grid_labels = EmptyDict
    /\ grid_info = None
    /\ args = None /\ templates = None /\ img = None /\ corners = None
    /\ results = << >> /\ files = {} /\ steps = {} /\ ocr = EmptyDict
    /\ detections = None /\ results_file = None
    /\ exit_status = None

\* the labels of labs that g does not hold, in their order
RECURSIVE Unassigned(_, _, _)
Unassigned(labs, g, n) ==
    IF n = 0 THEN << >>
    ELSE IF \E k \in DOMAIN g : g[k] = n
         THEN Unassigned(labs, g, n - 1)
         ELSE Append(Unassigned(labs, g, n - 1), labs[n])

\* GridMap taking each label it assigns out of the caller's list
GridMapConsuming ==
    /\ pc = "mapper_input"
    /\ LET r == assign_labels_to_grid(labels, case_bounds, layout.val, drawer_sizes)
       IN  /\ grid_labels' = r.grid_labels
           /\ grid_info' = r.grid_info
           /\ labels' = Unassigned(labels, r.grid_labels, Len(labels))
    /\ pc' = "mapper_done"
    /\ UNCHANGED << args, templates, layout, img, corners, case_bounds,
                    drawer_sizes, results, files, steps, ocr, detections,
                    results_file, exit_status >>

\* a call of assign_labels_to_grid: the function reads labels, case_bounds,
\* layout and drawer_sizes and assigns to none of them nor to their elements
GridMap ==
    /\ pc = "mapper_input"
    /\ LET r == assign_labels_to_grid(labels, case_bounds, layout.val, drawer_sizes)
       IN  /\ grid_labels' = r.grid_labels
           /\ grid_info' = r.grid_info
    /\ pc' = "mapper_done"
    /\ UNCHANGED << args, templates, layout, img, corners, case_bounds, labels,
                    drawer_sizes, results, files, steps, ocr, detections,
                    results_file, exit_status >>

\* a second call, on the arguments as the first call left them
GridMapAgain ==
    /\ pc = "mapper_done"
    /\ LET r == assign_labels_to_grid(labels, case_bounds, layout.val, drawer_sizes)
       IN  /\ grid_labels' = r.grid_labels
           /\ grid_info' = r.grid_info
    /\ pc' = "mapper_again"
    /\ UNCHANGED << args, templates, layout, img, corners, case_bounds, labels,
                    drawer_sizes, results, files, steps, ocr, detections,
                    results_file, exit_status >>

\* the orders in which a list of n labels can be given
Perms(n) == {p \in [1..n -> 1..n] : \A i, j \in 1..n : p[i] = p[j] => i = j}

\* a call on the same labels given in another order
GridMapPermuted ==
    /\ pc = "mapper_done"
    /\ \E p \in Perms(Len(labels)) :
          /\ labels' = [i \in 1..Len(labels) |-> labels[p[i]]]
          /\ LET r == assign_labels_to_grid(labels', case_bounds, layout.val,
                                            drawer_sizes)
             IN  /\ grid_labels' = r.grid_labels
                 /\ grid_info' = r.grid_info
    /\ pc' = "mapper_permuted"
    /\ UNCHANGED << args, templates, layout, img, corners, case_bounds,
                    drawer_sizes, results, files, steps, ocr, detections,
                    results_file, exit_status >>

NextGrid == GridMap

SpecGrid == InitGrid /\ [][NextGrid]_vars

(***************************************************************************)
(* Repeated calls of the grid mapper: SpecRuns                             *)
(***************************************************************************)
\* the grids of the layouts of the repeated calls
RunShapes == { <<1, 2>>, <<3, 1>> }

\* the candidates of the repeated calls: 2x2 boxes of three areas
RunCandidates == {MakeLabel(x, 3, 2, 2, a) : x \in CandX, a \in {500, 700, 900}}

InitRuns ==
    /\ pc = "mapper_input"
    /\ labels \in SeqsUpTo(RunCandidates, MaxLabels)
    /\ layout \in {Some(l) : l \in {m \in Layouts : <<m.columns, m.rows>> \in RunShapes}}
    /\ case_bounds = <<0, 0, GridW, GridH>>
    /\ drawer_sizes = Some(SizeCatalog)
    /\ grid_labels = EmptyDict
    /\ grid_info = None
    /\ args = None /\ templates = None /\ img = None /\ corners = None
    /\ results = << >> /\ files = {} /\ steps = {} /\ ocr = EmptyDict
    /\ detections = None /\ results_file = None
    /\ exit_status = None

NextRuns == GridMap \/ GridMapAgain \/ GridMapPermuted

SpecRuns == InitRuns /\ [][NextRuns]_vars

(***************************************************************************)
(* Strings are sequences of characters; find_layout_by_name                *)
(***************************************************************************)
UpperToLower == [c \in {"X", "Z"} |-> IF c = "X" THEN "x" ELSE "z"]

\* str.lower()
Lower(str) ==
    [i \in DOMAIN str |->
        IF str[i] \in DOMAIN UpperToLower THEN UpperToLower[str[i]] ELSE str[i]]

\* 'needle in hay' on strings
Contains(hay, needle) ==
    \E off \in 0..(Len(hay) - Len(needle)) :
        \A i \in 1..Len(needle) : hay[off + i] = needle[i]

\* 'if name_lower in template['name'].lower()'
NameMatches(template, name) == Contains(Lower(template.name), Lower(name))

\* FindFrom falling back to the first template when none matches
RECURSIVE FindFromDefault(_, _, _)
FindFromDefault(tpls, name, n) ==
    IF n > Len(tpls) THEN (IF tpls = << >> THEN None ELSE Some(tpls[1]))
    ELSE IF NameMatches(tpls[n], name) THEN Some(tpls[n])
    ELSE FindFromDefault(tpls, name, n + 1)

\* the scan of find_layout_by_name from template n on
RECURSIVE FindFrom(_, _, _)
FindFrom(tpls, name, n) ==
    IF n > Len(tpls) THEN None
    ELSE IF NameMatches(tpls[n], name) THEN Some(tpls[n])
    ELSE FindFrom(tpls, name, n + 1)

find_layout_by_name(tpls, name) == FindFrom(tpls, name, 1)

(***************************************************************************)
(* find_aruco_markers                                                      *)
(***************************************************************************)
MARKER_ID_TL == 1
MARKER_ID_BR == 2
MARKER_ID_TR == 3
MARKER_ID_BL == 4

\* corners4[i] / scale with scale = 1.5, on coordinates that are multiples
\* of 3
ScaleBack(quad) ==
    [k \in DOMAIN quad |-> <<(2 * quad[k][1]) \div 3, (2 * quad[k][2]) \div 3>>]

IdsOf(all) == {all[i].id : i \in DOMAIN all}

\* approach 1: all_corners.extend(corners); all_ids.extend(ids.flatten())
ExtendPass(all, dets) == all \o dets

\* MergePass without the test 'mid not in all_ids'
RECURSIVE MergePassAlways(_, _, _, _)
MergePassAlways(all, dets, n, scaled) ==
    IF n = 0 THEN all
    ELSE LET prev == MergePassAlways(all, dets, n - 1, scaled)
             det  == dets[n]
         IN  Append(prev, [id |-> det.id,
                           corners |-> IF scaled THEN ScaleBack(det.corners)
                                       ELSE det.corners])

\* approaches 2 to 4: the first n detections of the pass, each appended
\* unless its id is already in all_ids; scaled: the corners are scaled back
RECURSIVE MergePass(_, _, _, _)
MergePass(all, dets, n, scaled) ==
    IF n = 0 THEN all
    ELSE LET prev == MergePass(all, dets, n - 1, scaled)
             det  == dets[n]
         IN  IF det.id \in IdsOf(prev)
             THEN prev
             ELSE Append(prev, [id |-> det.id,
                                corners |-> IF scaled THEN ScaleBack(det.corners)
                                            ELSE det.corners])

\* all_ids / all_corners after the four approaches
AllDetected(d) ==
    LET a1 == ExtendPass(<< >>, d[1])
        a2 == MergePass(a1, d[2], Len(d[2]), FALSE)
        a3 == MergePass(a2, d[3], Len(d[3]), FALSE)
    IN  MergePass(a3, d[4], Len(d[4]), TRUE)

\* the if/elif chain: the logical corner of a marker id and the index of
\* the marker corner that is the case corner (0 = top-left, 1 = top-right,
\* 2 = bottom-right, 3 = bottom-left of the marker)
CornerOfMarker(marker_id) ==
    IF marker_id = MARKER_ID_TL THEN Some(<<"tl", 2>>)
    ELSE IF marker_id = MARKER_ID_TR THEN Some(<<"tr", 3>>)
    ELSE IF marker_id = MARKER_ID_BL THEN Some(<<"bl", 1>>)
    ELSE IF marker_id = MARKER_ID_BR THEN Some(<<"br", 0>>)
    ELSE None

\* found_corners after the first n entries of all_ids; a later entry of the
\* same id overwrites
RECURSIVE found_corners(_, _)
found_corners(all, n) ==
    IF n = 0 THEN EmptyDict
    ELSE LET prev == found_corners(all, n - 1)
             m    == CornerOfMarker(all[n].id)
         IN  IF m = None THEN prev
             ELSE [c \in DOMAIN prev \cup {m.val[1]} |->
                      IF c = m.val[1] THEN all[n].corners[m.val[2] + 1]
                      ELSE prev[c]]

required == <<"tl", "tr", "bl", "br">>

\* missing that does not look for the last required corner
missingButLast(found) ==
    {required[i] : i \in {j \in DOMAIN required :
                             j < Len(required) /\ required[j] \notin DOMAIN found}}

\* missing = [c for c in required if c not in found_corners]
missing(found) == {required[i] : i \in {j \in DOMAIN required : required[j] \notin DOMAIN found}}

find_aruco_markers(d) ==
    LET all == AllDetected(d)
    IN  IF all = << >> THEN None
        ELSE IF missing(found_corners(all, Len(all))) # {} THEN None
        ELSE Some(found_corners(all, Len(all)))

(***************************************************************************)
(* perspective_transform                                                   *)
(***************************************************************************)
\* largest r in lo..hi with r * r <= n
RECURSIVE SqrtIn(_, _, _)
SqrtIn(n, lo, hi) ==
    IF lo >= hi THEN lo
    ELSE LET mid == (lo + hi + 1) \div 2
         IN  IF mid * mid <= n THEN SqrtIn(n, mid, hi) ELSE SqrtIn(n, lo, mid - 1)

\* round(sqrt(n)): the nearest integer instead of the integer part
RoundSqrt(n) ==
    LET r == SqrtIn(n, 0, 32767)
    IN  IF n > r * (r + 1) THEN r + 1 ELSE r

\* int(sqrt(n)) for n < 2^30
IntSqrt(n) == SqrtIn(n, 0, 32767)

\* squared length of p - q
Norm2(p, q) == (p[1] - q[1]) * (p[1] - q[1]) + (p[2] - q[2]) * (p[2] - q[2])

\* width = int(max(width_top, width_bottom)), height = int(max(height_left,
\* height_right)); case_bounds = (0, 0, width, height)
perspective_transform(cs) ==
    LET width  == IntSqrt(Max(Norm2(cs["tr"], cs["tl"]), Norm2(cs["br"], cs["bl"])))
        height == IntSqrt(Max(Norm2(cs["bl"], cs["tl"]), Norm2(cs["br"], cs["tr"])))
    IN  <<0, 0, width, height>>

(***************************************************************************)
(* perspective_transform on its own: SpecRectify                           *)
(***************************************************************************)
\* shifts of the corner points of a quadrilateral about 10 pixels wide and
\* high
CornerShifts == {0, 2, 4}

CornerSets ==
    { [c \in {"tl", "tr", "br", "bl"} |->
          IF c = "tl" THEN <<0, a>>
          ELSE IF c = "tr" THEN <<10, b>>
          ELSE IF c = "br" THEN <<10 + d, 10 + e>>
          ELSE <<f, 10>>] :
        a \in CornerShifts, b \in CornerShifts, d \in CornerShifts,
        e \in CornerShifts, f \in CornerShifts }

InitRectify ==
    /\ pc = "rectify_input"
    /\ corners \in {Some(cs) : cs \in CornerSets}
    /\ case_bounds = <<0, 0, 0, 0>>
    /\ args = None /\ templates = None /\ layout = None /\ img = None
    /\ labels = << >> /\ drawer_sizes = None
    /\ grid_labels = EmptyDict /\ grid_info = None
    /\ results = << >> /\ files = {} /\ steps = {} /\ ocr = EmptyDict
    /\ detections = None /\ results_file = None
    /\ exit_status = None

\* a call of perspective_transform with output_size=None
RectifyRun ==
    /\ pc = "rectify_input"
    /\ case_bounds' = perspective_transform(corners.val)
    /\ pc' = "rectify_done"
    /\ UNCHANGED << args, templates, layout, img, corners, labels,
                    drawer_sizes, grid_labels, grid_info, results, files,
                    steps, ocr, detections, results_file, exit_status >>

NextRectify == RectifyRun

SpecRectify == InitRectify /\ [][NextRectify]_vars

(***************************************************************************)
(* find_white_labels: the filter over the contours and the sort            *)
(***************************************************************************)
\* KeepsContour without the test against the bottom edge
KeepsContourTopOnly(c, height) ==
    /\ c.w > 100 /\ c.h > 20 /\ c.h < 150 /\ c.w > 2 * c.h /\ c.area > 3000
    /\ c.y > 50

\* the size, aspect and edge filter; w/h > 2 is w > 2h for h > 20
KeepsContour(c, height) ==
    /\ c.w > 100 /\ c.h > 20 /\ c.h < 150 /\ c.w > 2 * c.h /\ c.area > 3000
    /\ c.y > 50 /\ c.y < height - 100

\* the labels list before the sort, after the first n contours
RECURSIVE KeptLabels(_, _, _)
KeptLabels(contours, height, n) ==
    IF n = 0 THEN << >>
    ELSE LET prev == KeptLabels(contours, height, n - 1)
             c    == contours[n]
         IN  IF KeepsContour(c, height)
             THEN Append(prev, MakeLabel(c.x, c.y, c.w, c.h, c.area))
             ELSE prev

\* key (l['y'], l['x']) of a is not after the key of b
KeyLeq(a, b) == a.y < b.y \/ (a.y = b.y /\ a.x <= b.x)

\* labels.sort(key=...): a stable sort, here by insertion
RECURSIVE SortLabels(_, _)
SortLabels(ls, n) ==
    IF n = 0 THEN << >>
    ELSE LET prev == SortLabels(ls, n - 1)
             at   == Cardinality({i \in DOMAIN prev : KeyLeq(prev[i], ls[n])})
         IN  SubSeq(prev, 1, at) \o << ls[n] >> \o SubSeq(prev, at + 1, Len(prev))

find_white_labels(contours, height) ==
    LET kept == KeptLabels(contours, height, Len(contours))
    IN  SortLabels(kept, Len(kept))

(***************************************************************************)
(* find_white_labels on its own: SpecLabels                                *)
(***************************************************************************)
MaxContours == 2   \* contours per image

\* sizes of the rectified image, as bounds (0, 0, width, height)
LabelImages == { <<0, 0, 600, 300>>, <<0, 0, 600, 400>> }

\* bounding boxes of white regions: a 120x40 box of area 4000 at the left
\* edge, inside and at the right edge of the image, at heights around the
\* limits of the filter, and boxes around the limits of the size tests
LabelContourPool ==
    { [x |-> x, y |-> y, w |-> 120, h |-> 40, area |-> 4000] :
        x \in {0, 150, 480}, y \in {50, 51, 199, 200, 299} }
    \cup { [x |-> 150, y |-> 120, w |-> 100, h |-> 40, area |-> 4000],
           [x |-> 150, y |-> 120, w |-> 101, h |-> 21, area |-> 3001],
           [x |-> 150, y |-> 120, w |-> 120, h |-> 20, area |-> 4000],
           [x |-> 150, y |-> 120, w |-> 400, h |-> 150, area |-> 9000],
           [x |-> 150, y |-> 120, w |-> 400, h |-> 149, area |-> 9000],
           [x |-> 150, y |-> 120, w |-> 120, h |-> 60, area |-> 4000],
           [x |-> 150, y |-> 120, w |-> 120, h |-> 40, area |-> 3000] }

InitLabels ==
    /\ pc = "labels_input"
    /\ case_bounds \in LabelImages
    /\ labels = << >>
    /\ args = None /\ templates = None /\ layout = None /\ img = None
    /\ corners = None /\ drawer_sizes = None
    /\ grid_labels = EmptyDict /\ grid_info = None
    /\ results = << >> /\ files = {} /\ steps = {} /\ ocr = EmptyDict
    /\ detections = None /\ results_file = None
    /\ exit_status = None

\* a call of find_white_labels on a rectified image in which findContours
\* finds these contours
LabelsRun ==
    /\ pc = "labels_input"
    /\ \E contours \in SeqsUpTo(LabelContourPool, MaxContours) :
          labels' = find_white_labels(contours, case_bounds[4])
    /\ pc' = "labels_done"
    /\ UNCHANGED << args, templates, layout, img, corners, case_bounds,
                    drawer_sizes, grid_labels, grid_info, results, files,
                    steps, ocr, detections, results_file, exit_status >>

NextLabels == LabelsRun

SpecLabels == InitLabels /\ [][NextLabels]_vars

(***************************************************************************)
(* extract_and_ocr_label: the text-extraction call                         *)
(***************************************************************************)
\* str.strip() for the blank
RECURSIVE Strip(_)
Strip(str) ==
    IF str = << >> THEN str
    ELSE IF Head(str) = " " THEN Strip(Tail(str))
    ELSE IF str[Len(str)] = " " THEN Strip(SubSeq(str, 1, Len(str) - 1))
    ELSE str

\* extract_and_ocr_label using the body of a reply that is not a success
extract_and_ocr_label_any(reply) == Strip(reply.response)

\* the try/except around requests.post: the stripped "response" of the
\* reply, "" on any exception
extract_and_ocr_label(reply) ==
    IF reply.status = "ok" THEN Strip(reply.response) ELSE << >>

\* AppendResult with row and column exchanged
AppendResultSwapped(res, drawer, text) ==
    Append(res, [row |-> drawer.col, col |-> drawer.row, text |-> text])

\* results.append({"row": row, "col": col, "text": text})
AppendResult(res, drawer, text) ==
    Append(res, [row |-> drawer.row, col |-> drawer.col, text |-> text])

(***************************************************************************)
(* Inputs of the runs of main()                                            *)
(***************************************************************************)
Cell(r, c, size) == [row |-> r, col |-> c, size |-> size]

Tpl8X8 ==
    [name |-> <<"8", "X", "8">>, columns |-> 3, rows |-> 1,
     layoutData |-> << Cell(1, 1, "wide"), Cell(1, 3, "standard") >>]

Tpl10x10 ==
    [name |-> <<"1", "0", "x", "1", "0">>, columns |-> 2, rows |-> 1,
     layoutData |-> << Cell(1, 1, "standard"), Cell(1, 2, "jumbo") >>]

Tpl8x10 ==
    [name |-> <<"8", "x", "1", "0">>, columns |-> 2, rows |-> 2,
     layoutData |-> << Cell(2, 2, "standard"), Cell(1, 1, "standard"),
                       Cell(2, 1, "jumbo") >>]

\* what the catalog may answer to 'list layout templates'
MainCatalogs == { << Tpl8X8, Tpl10x10, Tpl8x10 >>, << Tpl8x10, Tpl8X8 >>, << >> }

\* the --layout argument: absent, empty, "zzz", "8x", "10", "X1"
Selectors ==
    { None, Some(<< >>), Some(<<"z", "z", "z">>), Some(<<"8", "x">>),
      Some(<<"1", "0">>), Some(<<"X", "1">>) }

\* the four corners of a detected marker, in the order top-left, top-right,
\* bottom-right, bottom-left
Quad(px, py, s) == << <<px, py>>, <<px + s, py>>, <<px + s, py + s>>, <<px, py + s>> >>

Det(id, px, py) == [id |-> id, corners |-> Quad(px, py, 30)]

\* the same detection in the image scaled up by 1.5
Up(det) ==
    [id |-> det.id,
     corners |-> [k \in DOMAIN det.corners |->
                     <<(3 * det.corners[k][1]) \div 2, (3 * det.corners[k][2]) \div 2>>]]

\* markers around a case whose corners are (60,60), (660,60), (60,360) and
\* (660,360), and a marker of another id
DetTL == Det(MARKER_ID_TL, 30, 30)
DetTR == Det(MARKER_ID_TR, 660, 30)
DetBL == Det(MARKER_ID_BL, 30, 360)
DetBR == Det(MARKER_ID_BR, 660, 360)
DetOther == Det(9, 300, 300)

\* what one pass of detectMarkers may return
PassOutcomes ==
    { << >>, << DetTL, DetBR, DetTR, DetBL >>, << DetTL, DetBR >>,
      << DetTR, DetBL, DetOther >>, << DetTL >> }

MainDetections ==
    { << d1, d2, d3, [i \in DOMAIN d4 |-> Up(d4[i])] >> :
        d1 \in PassOutcomes, d2 \in PassOutcomes, d3 \in PassOutcomes,
        d4 \in PassOutcomes }

\* bounding boxes and areas of white regions of the rectified image
Contour(x, y, w, h, area) == [x |-> x, y |-> y, w |-> w, h |-> h, area |-> area]

ContourPool ==
    { Contour(150, 120, 120, 40, 4000), Contour(440, 120, 120, 40, 4500),
      Contour(310, 130, 120, 40, 5000), Contour(160, 110, 110, 30, 3100),
      Contour(150, 20, 120, 40, 4000) }

MainContours == SeqsUpTo(ContourPool, 2)

\* what the text-extraction service may answer
Reply(status, response) == [status |-> status, response |-> response]

Replies ==
    { Reply("ok", <<" ", "M", "3", " ">>), Reply("ok", << >>),
      Reply("timeout", << >>), Reply("http_error", <<"M", "3">>) }

(***************************************************************************)
(* find_aruco_markers on its own: SpecDetect                               *)
(***************************************************************************)
\* where the marker of an id stands in the image
MarkerPlace(id) ==
    IF id = MARKER_ID_TL THEN <<30, 30>>
    ELSE IF id = MARKER_ID_TR THEN <<660, 30>>
    ELSE IF id = MARKER_ID_BL THEN <<30, 360>>
    ELSE IF id = MARKER_ID_BR THEN <<660, 360>>
    ELSE <<300, 300>>

\* what a pass may detect, as <<id, copy>>: copy 1 is a second marker of the
\* same id, 20 pixels to the right of the first
PassShapes ==
    { << >>,
      << <<1, 0>>, <<2, 0>>, <<3, 0>>, <<4, 0>> >>,
      << <<1, 0>>, <<2, 0>> >>,
      << <<3, 0>>, <<4, 0>>, <<9, 0>> >>,
      << <<2, 0>>, <<4, 0>>, <<2, 1>> >>,
      << <<1, 0>>, <<1, 1>>, <<3, 0>> >> }

\* the detections of pass p for a shape: each preprocessing locates a marker
\* 2 pixels further right and down than the one before it; pass 4 works on
\* the image scaled up by 1.5
DetectionsOfPass(shape, p) ==
    [i \in DOMAIN shape |->
        LET d == Det(shape[i][1],
                     MarkerPlace(shape[i][1])[1] + 2 * (p - 1) + 20 * shape[i][2],
                     MarkerPlace(shape[i][1])[2] + 2 * (p - 1))
        IN  IF p = 4 THEN Up(d) ELSE d]

DetectInputs ==
    { << DetectionsOfPass(s1, 1), DetectionsOfPass(s2, 2),
         DetectionsOfPass(s3, 3), DetectionsOfPass(s4, 4) >> :
        s1 \in PassShapes, s2 \in PassShapes, s3 \in PassShapes,
        s4 \in PassShapes }

InitDetect ==
    /\ pc = "detect_input"
    /\ detections \in {Some(d) : d \in DetectInputs}
    /\ corners = None
    /\ case_bounds = <<0, 0, 0, 0>>
    /\ args = None /\ templates = None /\ layout = None /\ img = None
    /\ labels = << >> /\ drawer_sizes = None
    /\ grid_labels = EmptyDict /\ grid_info = None
    /\ results = << >> /\ files = {} /\ steps = {} /\ ocr = EmptyDict
    /\ results_file = None
    /\ exit_status = None

\* a call of find_aruco_markers on an image in which the four passes detect
\* these markers
DetectRun ==
    /\ pc = "detect_input"
    /\ corners' = find_aruco_markers(detections.val)
    /\ pc' = "detect_done"
    /\ UNCHANGED << args, templates, layout, img, case_bounds, labels,
                    drawer_sizes, grid_labels, grid_info, results, files,
                    steps, ocr, detections, results_file, exit_status >>

NextDetect == DetectRun

SpecDetect == InitDetect /\ [][NextDetect]_vars

(***************************************************************************)
(* main(): SpecMain                                                        *)
(***************************************************************************)
File(name, r, c) == <<name, r, c>>

InitMain ==
    /\ pc = "start"
    /\ args \in [layout : Selectors, list_layouts : BOOLEAN,
                 image : {None, Some("photo.png")}]
    /\ templates = None /\ layout = None /\ img = None /\ corners = None
    /\ case_bounds = <<0, 0, 0, 0>>
    /\ labels = << >>
    /\ drawer_sizes = None
    /\ grid_labels = EmptyDict
    /\ grid_info = None
    /\ results = << >> /\ files = {} /\ steps = {} /\ ocr = EmptyDict
    /\ detections = None /\ results_file = None
    /\ exit_status = None

\* sys.exit(n), or the exit of the interpreter
Exit(n) == pc' = "exit" /\ exit_status' = Some(n)

\* lines 640-645
FetchTemplates ==
    /\ pc = "start"
    /\ steps' = steps \cup {"fetch_templates"}
    /\ \E r \in {None} \cup {Some(c) : c \in MainCatalogs} :
          /\ templates' = r
          /\ IF r = None THEN Exit(1)
             ELSE pc' = "check_args" /\ UNCHANGED exit_status
    /\ UNCHANGED << args, layout, img, corners, case_bounds, labels,
                    drawer_sizes, grid_labels, grid_info, results, files, ocr,
                    detections, results_file >>

\* 'not args.layout'
NoSelector(a) == a.layout = None \/ a.layout = Some(<< >>)

\* lines 647-660
CheckArgs ==
    /\ pc = "check_args"
    /\ IF args.list_layouts
       THEN Exit(0) /\ steps' = steps \cup {"list_layouts"}
       ELSE IF NoSelector(args) THEN Exit(1) /\ UNCHANGED steps
       ELSE IF args.image = None THEN Exit(1) /\ UNCHANGED steps
       ELSE pc' = "select" /\ UNCHANGED << exit_status, steps >>
    /\ UNCHANGED << args, templates, layout, img, corners, case_bounds, labels,
                    drawer_sizes, grid_labels, grid_info, results, files, ocr,
                    detections, results_file >>

\* lines 662-672
SelectLayout ==
    /\ pc = "select"
    /\ layout' = find_layout_by_name(templates.val, args.layout.val)
    /\ steps' = steps \cup {"select_layout"}
    /\ IF layout' = None THEN Exit(1)
       ELSE pc' = "load" /\ UNCHANGED exit_status
    /\ UNCHANGED << args, templates, img, corners, case_bounds, labels,
                    drawer_sizes, grid_labels, grid_info, results, files, ocr,
                    detections, results_file >>

\* lines 674-684
LoadImage ==
    /\ pc = "load"
    /\ steps' = steps \cup {"imread"}
    /\ \E loaded \in BOOLEAN :
          IF loaded
          THEN /\ img' = Some(args.image.val)
               /\ files' = files \cup {File("output_dir", 0, 0)}
               /\ pc' = "detect" /\ UNCHANGED exit_status
          ELSE /\ img' = None
               /\ Exit(1) /\ UNCHANGED files
    /\ UNCHANGED << args, templates, layout, corners, case_bounds, labels,
                    drawer_sizes, grid_labels, grid_info, results, ocr,
                    detections, results_file >>

\* lines 686-692
DetectMarkers ==
    /\ pc = "detect"
    /\ steps' = steps \cup {"detect"}
    /\ \E d \in MainDetections :
          /\ detections' = Some(d)
          /\ corners' = find_aruco_markers(d)
    /\ IF corners' = None THEN Exit(1)
       ELSE pc' = "rectify" /\ UNCHANGED exit_status
    /\ UNCHANGED << args, templates, layout, img, case_bounds, labels,
                    drawer_sizes, grid_labels, grid_info, results, files, ocr,
                    results_file >>

\* lines 694-700.  The arrays of the detection passes were locals of
\* find_aruco_markers: main() holds only corners from here on.
Rectify ==
    /\ pc = "rectify"
    /\ steps' = steps \cup {"rectify"}
    /\ case_bounds' = perspective_transform(corners.val)
    /\ files' = files \cup {File("rectified.png", 0, 0)}
    /\ detections' = None
    /\ pc' = "find_labels"
    /\ UNCHANGED << args, templates, layout, img, corners, labels,
                    drawer_sizes, grid_labels, grid_info, results, ocr,
                    results_file, exit_status >>

\* lines 702-704
FindLabels ==
    /\ pc = "find_labels"
    /\ steps' = steps \cup {"find_labels"}
    /\ \E contours \in MainContours :
          labels' = find_white_labels(contours, case_bounds[4])
    /\ files' = files \cup {File("debug_mask_1.png", 0, 0),
                            File("debug_mask_2.png", 0, 0),
                            File("debug_mask_3.png", 0, 0)}
    /\ pc' = "fetch_sizes"
    /\ UNCHANGED << args, templates, layout, img, corners, case_bounds,
                    drawer_sizes, grid_labels, grid_info, results, ocr,
                    detections, results_file, exit_status >>

\* lines 706-709
FetchSizes ==
    /\ pc = "fetch_sizes"
    /\ steps' = steps \cup {"fetch_sizes"}
    /\ drawer_sizes' \in {None, Some(SizeCatalog)}
    /\ pc' = "assign"
    /\ UNCHANGED << args, templates, layout, img, corners, case_bounds, labels,
                    grid_labels, grid_info, results, files, ocr, detections,
                    results_file, exit_status >>

\* lines 710-727; a TypeError raised by assign_labels_to_grid ends the run
AssignLabels ==
    /\ pc = "assign"
    /\ LET r == assign_labels_to_grid(labels, case_bounds, layout.val, drawer_sizes)
       IN  IF r.raised
           THEN /\ steps' = steps \cup {"assign", "uncaught_exception"}
                /\ Exit(1)
                /\ UNCHANGED << grid_labels, grid_info, files >>
           ELSE /\ steps' = steps \cup {"assign"}
                /\ grid_labels' = r.grid_labels
                /\ grid_info' = r.grid_info
                /\ files' = files \cup {File("debug_detection.png", 0, 0)}
                /\ pc' = "ocr" /\ UNCHANGED exit_status
    /\ UNCHANGED << args, templates, layout, img, corners, case_bounds, labels,
                    drawer_sizes, results, ocr, detections, results_file >>

\* lines 729-745: one iteration of the loop over layout_data
OcrCell ==
    /\ pc = "ocr"
    /\ Len(results) < Len(layout.val.layoutData)
    /\ LET drawer == layout.val.layoutData[Len(results) + 1]
           key    == <<drawer.row, drawer.col>>
       IN  IF key \in DOMAIN grid_labels
           THEN \E reply \in Replies :
                   /\ files' = files \cup {File("label.png", drawer.row, drawer.col)}
                   /\ steps' = steps \cup {"ocr_call"}
                   /\ ocr' = [k \in DOMAIN ocr \cup {key} |->
                                 IF k = key
                                 THEN (IF key \in DOMAIN ocr THEN ocr[key] ELSE << >>)
                                      \o << reply >>
                                 ELSE ocr[k]]
                   /\ results' = AppendResult(results, drawer,
                                              extract_and_ocr_label(reply))
           ELSE /\ results' = AppendResult(results, drawer, << >>)
                /\ UNCHANGED << files, steps, ocr >>
    /\ UNCHANGED << pc, args, templates, layout, img, corners, case_bounds,
                    labels, drawer_sizes, grid_labels, grid_info, detections,
                    results_file, exit_status >>

\* lines 747-756, and the return of main()
SaveResults ==
    /\ pc = "ocr"
    /\ Len(results) = Len(layout.val.layoutData)
    /\ results_file' = Some(results)
    /\ files' = files \cup {File("ocr_results.json", 0, 0)}
    /\ steps' = steps \cup {"save_results"}
    /\ Exit(0)
    /\ UNCHANGED << args, templates, layout, img, corners, case_bounds, labels,
                    drawer_sizes, grid_labels, grid_info, results, ocr,
                    detections >>

NextMain ==
    \/ FetchTemplates
    \/ CheckArgs
    \/ SelectLayout
    \/ LoadImage
    \/ DetectMarkers
    \/ Rectify
    \/ FindLabels
    \/ FetchSizes
    \/ AssignLabels
    \/ OcrCell
    \/ SaveResults

SpecMain == InitMain /\ [][NextMain]_vars

(***************************************************************************)
(* Vocabulary of the grid-mapper properties.  These definitions restate    *)
(* the specification's notions over the values the mapper returned; none   *)
(* of them uses the operators of the loop over labels.                     *)
(***************************************************************************)
Mapped == pc = "mapper_done" /\ grid_info # None

\* the Cell Boundary map the mapper returned
BoundaryMap == IF grid_info = None THEN << >> ELSE grid_info.val.drawer_boundaries

BoundaryOf(k) == DictGet(BoundaryMap, k)

\* squared distance between the centre of label i and the centre of entry p
\* of the Cell Boundary map, in units of (1/Scale)^2 square pixels
SqDist(i, p) ==
    LET b == BoundaryMap[p][2]
        dx == CxOf(labels[i], layout.val) - b.center_x
        dy == CyOf(labels[i], layout.val) - b.center_y
    IN  (dx \div 10) * (dx \div 10) + (dy \div 10) * (dy \div 10)

\* entry p is the nearest Cell Boundary of label i; of several at the same
\* distance the first of the map is the nearest
IsNearest(i, p) ==
    /\ p \in DOMAIN BoundaryMap
    /\ \A q \in DOMAIN BoundaryMap :
          /\ q < p => SqDist(i, q) > SqDist(i, p)
          /\ q > p => SqDist(i, q) >= SqDist(i, p)

\* the centre of label i lies in boundary b grown by mx on the left and
\* right and by my on the top and bottom, mx and my in tenths of a unit
InGrown(i, b, mx, my) ==
    LET cx == CxOf(labels[i], layout.val)
        cy == CyOf(labels[i], layout.val)
    IN  /\ 10 * (b.left - cx) <= mx
        /\ 10 * (cx - b.right) <= mx
        /\ 10 * (b.top - cy) <= my
        /\ 10 * (cy - b.bottom) <= my

\* 30% of the larger of the cell's width and height, in tenths of a unit
LargerDim30(b) == 3 * Max(b.width, b.height)

\* label i qualifies for cell k: k is its nearest cell and it passes the
\* margin test of that cell
Qualifies(i, k) ==
    \E p \in DOMAIN BoundaryMap :
        /\ BoundaryMap[p][1] = k
        /\ IsNearest(i, p)
        /\ InGrown(i, BoundaryMap[p][2], LargerDim30(BoundaryMap[p][2]),
                   LargerDim30(BoundaryMap[p][2]))

Qualified(k) == {i \in DOMAIN labels : Qualifies(i, k)}

Positions == {<<r, c>> : r \in 1..layout.val.rows, c \in 1..layout.val.columns}

\* label i beats label j in conflict resolution: larger area, or the same
\* area and earlier in the candidate list
Beats(i, j) ==
    \/ labels[i].area > labels[j].area
    \/ labels[i].area = labels[j].area /\ i < j

(***************************************************************************)
(* C1.  After assign_labels_to_grid every cell of the Grid Assignment      *)
(* holds, among all candidates that qualified for the cell (nearest cell   *)
(* centre, inside the margin test), the one with the largest area, and of  *)
(* several with the largest area the first of the candidate list; a cell   *)
(* for which no candidate qualified holds none.                            *)
(***************************************************************************)
C1_LargestAreaWins ==
    pc = "mapper_done" =>
        /\ DOMAIN grid_labels \subseteq Positions
        /\ \A k \in Positions :
              IF Qualified(k) = {}
              THEN k \notin DOMAIN grid_labels
              ELSE /\ k \in DOMAIN grid_labels
                   /\ grid_labels[k] \in Qualified(k)
                   /\ \A i \in Qualified(k) \ {grid_labels[k]} :
                         Beats(grid_labels[k], i)

\* two candidates with the same, largest area qualified for one cell and the
\* cell holds the earlier one
C1_Witness ==
    /\ pc = "mapper_done"
    /\ \E k \in DOMAIN grid_labels :
         \E j \in Qualified(k) :
            /\ grid_labels[k] < j
            /\ labels[j].area = labels[grid_labels[k]].area

(***************************************************************************)
(* C3.  A Cell Definition of 2x1 units gets a Cell Boundary exactly twice  *)
(* the unit width, and every candidate whose centre lies within that       *)
(* boundary is assigned to that cell, whatever cells are next to it.       *)
(* Stated in the cases most favourable to the claim: all size classes      *)
(* known, the wide cell inside the grid, no other Cell Definition on its   *)
(* second unit, and a candidate that lost the cell only to a candidate of  *)
(* at least its area counts as assigned.                                   *)
(***************************************************************************)
IsWide(d) ==
    /\ d.size \in DOMAIN size_map(drawer_sizes.val)
    /\ size_map(drawer_sizes.val)[d.size].widthUnits = 2
    /\ size_map(drawer_sizes.val)[d.size].heightUnits = 1

NoOverlap(d) ==
    /\ d.col + 1 <= layout.val.columns
    /\ \A e \in DOMAIN layout.val.layoutData :
        ~ (layout.val.layoutData[e].row = d.row /\ layout.val.layoutData[e].col = d.col + 1)

C3_WideCellTakesAllInside ==
    Mapped /\ (\A e \in DOMAIN layout.val.layoutData :
                  layout.val.layoutData[e].size \in DOMAIN size_map(drawer_sizes.val)) =>
        \A n \in DOMAIN layout.val.layoutData :
            LET d == layout.val.layoutData[n]
                k == <<d.row, d.col>>
            IN  IsWide(d) /\ NoOverlap(d) =>
                  /\ BoundaryOf(k).width = 2 * grid_info.val.unit_width
                  /\ \A i \in DOMAIN labels :
                        InGrown(i, BoundaryOf(k), 0, 0) =>
                           /\ k \in DOMAIN grid_labels
                           /\ labels[grid_labels[k]].area >= labels[i].area
                           /\ \A k2 \in DOMAIN grid_labels :
                                 grid_labels[k2] = i => k2 = k

(***************************************************************************)
(* C4.  A candidate is matched only to the Cell Boundary whose centre is   *)
(* nearest to its centre (squared Euclidean distance), and only if its     *)
(* centre lies within that cell's bounds grown on all four sides by 30% of *)
(* the larger of the cell's width and height; a candidate that fails the   *)
(* test is dropped and not tried against any other cell.                   *)
(***************************************************************************)
C4_NearestWithinMargin ==
    Mapped =>
        \A i \in DOMAIN labels :
            /\ \A k \in DOMAIN grid_labels :
                  grid_labels[k] = i =>
                     \E p \in DOMAIN BoundaryMap :
                        /\ BoundaryMap[p][1] = k
                        /\ \A q \in DOMAIN BoundaryMap : SqDist(i, p) <= SqDist(i, q)
                        /\ InGrown(i, BoundaryMap[p][2],
                                   LargerDim30(BoundaryMap[p][2]),
                                   LargerDim30(BoundaryMap[p][2]))
            /\ (\E p \in DOMAIN BoundaryMap :
                   /\ IsNearest(i, p)
                   /\ ~ InGrown(i, BoundaryMap[p][2],
                                LargerDim30(BoundaryMap[p][2]),
                                LargerDim30(BoundaryMap[p][2])))
                  => \A k \in DOMAIN grid_labels : grid_labels[k] # i

\* the claim as written: the margin is 30% of the width on the left and
\* right and 30% of the height on the top and bottom
C4_PerAxisMargin ==
    Mapped =>
        \A i \in DOMAIN labels : \A k \in DOMAIN grid_labels :
            grid_labels[k] = i =>
               InGrown(i, BoundaryOf(k), 3 * BoundaryOf(k).width,
                       3 * BoundaryOf(k).height)

\* a candidate outside its nearest cell, within the margin, is held by the
\* cell, and another candidate failed the margin test of its nearest cell
C4_Witness ==
    /\ Mapped
    /\ \E k \in DOMAIN grid_labels :
          ~ InGrown(grid_labels[k], BoundaryOf(k), 0, 0)
    /\ \E i \in DOMAIN labels : \E p \in DOMAIN BoundaryMap :
          /\ IsNearest(i, p)
          /\ ~ InGrown(i, BoundaryMap[p][2], LargerDim30(BoundaryMap[p][2]),
                       LargerDim30(BoundaryMap[p][2]))
          /\ Len(BoundaryMap) > 1

(***************************************************************************)
(* C10.  In a grid of uniform 1x1-unit cells over bounds (0,0,W,H) a       *)
(* candidate whose centre is exactly the centre of a defined cell (r, c)   *)
(* appears under no other cell, and (r, c) holds it unless (r, c) holds a  *)
(* candidate that beats it in conflict resolution.                         *)
(***************************************************************************)
Uniform ==
    \A e \in DOMAIN layout.val.layoutData :
        /\ layout.val.layoutData[e].size \in DOMAIN size_map(drawer_sizes.val)
        /\ size_map(drawer_sizes.val)[layout.val.layoutData[e].size].widthUnits = 1
        /\ size_map(drawer_sizes.val)[layout.val.layoutData[e].size].heightUnits = 1

Defined(k) ==
    \E e \in DOMAIN layout.val.layoutData :
        layout.val.layoutData[e].row = k[1] /\ layout.val.layoutData[e].col = k[2]

\* the centre of label i is the centre of the uniform cell k = (r, c):
\* x + w/2 = (c - 1/2) * W / columns and y + h/2 = (r - 1/2) * H / rows
AtCentre(i, k) ==
    /\ case_bounds[1] = 0 /\ case_bounds[2] = 0
    /\ labels[i].cx * layout.val.columns = (2 * k[2] - 1) * case_bounds[3]
    /\ labels[i].cy * layout.val.rows = (2 * k[1] - 1) * case_bounds[4]

C10_CentreCandidate ==
    pc = "mapper_done" /\ Uniform =>
        \A i \in DOMAIN labels : \A k \in Positions :
            Defined(k) /\ AtCentre(i, k) =>
               /\ \A k2 \in DOMAIN grid_labels : grid_labels[k2] = i => k2 = k
               /\ k \in DOMAIN grid_labels
               /\ grid_labels[k] = i \/ Beats(grid_labels[k], i)

\* the claim as written: the candidate at the centre is the one (r, c) holds
C10_CentreCandidateHeld ==
    pc = "mapper_done" /\ Uniform =>
        \A i \in DOMAIN labels : \A k \in Positions :
            Defined(k) /\ AtCentre(i, k) =>
               /\ \A k2 \in DOMAIN grid_labels : grid_labels[k2] = i => k2 = k
               /\ k \in DOMAIN grid_labels
               /\ grid_labels[k] = i

\* a grid of several uniform cells, a candidate at the centre of one of
\* them, held by that cell
C10_Witness ==
    /\ pc = "mapper_done" /\ Uniform
    /\ Len(layout.val.layoutData) > 1
    /\ \E i \in DOMAIN labels : \E k \in Positions :
          /\ Defined(k) /\ AtCentre(i, k)
          /\ k \in DOMAIN grid_labels /\ grid_labels[k] = i

(***************************************************************************)
(* Vocabulary of the properties of main()                                  *)
(***************************************************************************)
LayoutData == layout.val.layoutData

KeyOf(n) == <<LayoutData[n].row, LayoutData[n].col>>

Has(step) == step \in steps

Exited(n) == pc = "exit" /\ exit_status = Some(n)

\* the steps that read or process the image
ImageSteps == {"imread", "detect", "rectify", "find_labels"}

(***************************************************************************)
(* C2.  Once the loop over the layout is over, the results list has        *)
(* exactly one record per Cell Definition of the selected layout, in the   *)
(* layout's order, each with the definition's row and column, and the text *)
(* of a record is empty whenever the cell has no candidate in the Grid     *)
(* Assignment; while the loop runs, the list is a prefix of that list.     *)
(***************************************************************************)
C2_OneRecordPerCell ==
    /\ results # << >> => Has("assign") /\ Len(results) <= Len(LayoutData)
    /\ \A n \in DOMAIN results :
          /\ results[n].row = LayoutData[n].row
          /\ results[n].col = LayoutData[n].col
          /\ KeyOf(n) \notin DOMAIN grid_labels => results[n].text = << >>
    /\ Has("save_results") =>
          /\ Len(results) = Len(LayoutData)
          /\ results_file = Some(results)

\* a finished run over a layout whose rows and columns differ, with a
\* record that has text and a record of a cell without candidate
C2_Witness ==
    /\ Exited(0) /\ Has("save_results")
    /\ \E n, m \in DOMAIN results :
          /\ results[n].text # << >>
          /\ results[m].row # results[m].col
          /\ KeyOf(m) \notin DOMAIN grid_labels

(***************************************************************************)
(* C5.  If either catalog request fails (layout templates, size classes),  *)
(* the run aborts with a fatal error and a non-zero exit status before any *)
(* image processing step has taken place.                                  *)
(***************************************************************************)
C5_CatalogFailureAbortsFirst ==
    /\ Has("fetch_templates") /\ templates = None =>
          Exited(1) /\ steps \cap ImageSteps = {}
    /\ Has("fetch_sizes") /\ drawer_sizes = None =>
          Exited(1) /\ steps \cap ImageSteps = {}

(***************************************************************************)
(* C6.  When the layout selector is not a case-insensitive substring of    *)
(* any template name, the image is never read and no output file or        *)
(* directory is written, and the layout selection of main() ends the run   *)
(* with a non-zero status; when the selector matches several templates the *)
(* first one in catalog order is the one used.                             *)
(***************************************************************************)
MatchingTemplates ==
    {i \in DOMAIN templates.val : NameMatches(templates.val[i], args.layout.val)}

DetectedIds ==
    UNION {{detections.val[p][i].id : i \in DOMAIN detections.val[p]} : p \in 1..4}

LaterSteps == {"rectify", "find_labels", "fetch_sizes", "assign", "ocr_call", "save_results"}

C7_AllFourCornersOrFailure ==
    /\ corners # None => DOMAIN corners.val = {"tl", "tr", "bl", "br"}
    /\ detections # None /\ corners # None =>
          {MARKER_ID_TL, MARKER_ID_BR, MARKER_ID_TR, MARKER_ID_BL} \subseteq DetectedIds
    /\ detections # None
       /\ ~ ({MARKER_ID_TL, MARKER_ID_BR, MARKER_ID_TR, MARKER_ID_BL} \subseteq DetectedIds) =>
          corners = None
    /\ Has("detect") /\ corners = None =>
          /\ Exited(1)
          /\ steps \cap LaterSteps = {}
          /\ results_file = None /\ ocr = EmptyDict /\ results = << >>

\* three of the four markers were detected and the run is over
C7_Witness ==
    /\ Has("detect") /\ corners = None /\ Exited(1)
    /\ Cardinality(DetectedIds \cap {MARKER_ID_TL, MARKER_ID_BR, MARKER_ID_TR,
                                     MARKER_ID_BL}) = 3

(***************************************************************************)
(* C8.  A failure of the text-extraction call for a cell makes that cell's *)
(* text the empty string and nothing else: the call is made once per cell  *)
(* and not retried, the text of every cell is determined by the reply to   *)
(* its own call whatever happened to the others, the run goes on with the  *)
(* next Cell Definition and the full result set is written.                *)
(***************************************************************************)
Failed(k) == k \in DOMAIN ocr /\ \E c \in DOMAIN ocr[k] : ocr[k][c].status # "ok"

C8_OcrFailureIsolated ==
    /\ \A k \in DOMAIN ocr : Len(ocr[k]) = 1 /\ k \in DOMAIN grid_labels
    /\ \A n \in DOMAIN results :
          KeyOf(n) \in DOMAIN grid_labels =>
             /\ KeyOf(n) \in DOMAIN ocr
             /\ Failed(KeyOf(n)) => results[n].text = << >>
             /\ ~ Failed(KeyOf(n)) =>
                   results[n].text = Strip(ocr[KeyOf(n)][1].response)
    /\ (\E k \in DOMAIN ocr : Failed(k)) =>
          /\ pc \in {"ocr", "exit"}
          /\ pc = "exit" =>
                /\ exit_status = Some(0)
                /\ Len(results) = Len(LayoutData)
                /\ results_file = Some(results)

\* a finished run in which the call of one cell failed and a later cell
\* has text
C8_Witness ==
    /\ Exited(0) /\ results_file = Some(results)
    /\ \E n, m \in DOMAIN results :
          /\ n < m
          /\ Failed(KeyOf(n)) /\ results[n].text = << >>
          /\ results[m].text # << >>

(***************************************************************************)
(* C9.  A Cell Definition whose size-class name is not in the size catalog *)
(* does not abort the run: the cell gets no Cell Boundary, is never a key  *)
(* of the Grid Assignment, still has a Result Record with empty text, and  *)
(* the boundaries and assignments of the other cells are those of the      *)
(* layout without the unknown cells.                                       *)
(***************************************************************************)
KnownSize(d) == \E i \in DOMAIN drawer_sizes.val : drawer_sizes.val[i].name = d.size

UnknownCells == {n \in DOMAIN LayoutData : ~ KnownSize(LayoutData[n])}

WithoutUnknown(lay) == [lay EXCEPT !.layoutData = SelectSeq(lay.layoutData, KnownSize)]

C9_UnknownSizeSkipped ==
    Has("assign") /\ drawer_sizes # None =>
        /\ ~ Has("uncaught_exception")
        /\ pc \in {"ocr", "exit"}
        /\ pc = "exit" => exit_status = Some(0) /\ Len(results) = Len(LayoutData)
        /\ \A n \in UnknownCells :
              /\ KeyOf(n) \notin DictKeys(BoundaryMap)
              /\ KeyOf(n) \notin DOMAIN grid_labels
              /\ n \in DOMAIN results =>
                    /\ results[n].row = LayoutData[n].row
                    /\ results[n].col = LayoutData[n].col
                    /\ results[n].text = << >>
        /\ LET r == assign_labels_to_grid(labels, case_bounds,
                                          WithoutUnknown(layout.val), drawer_sizes)
           IN  grid_labels = r.grid_labels /\ grid_info = r.grid_info

\* a finished run over a layout with a cell of unknown size, in which a
\* candidate was assigned to another cell
C9_Witness ==
    /\ Exited(0) /\ Has("save_results") /\ drawer_sizes # None
    /\ UnknownCells # {}
    /\ grid_labels # EmptyDict
    /\ \A n \in UnknownCells : results[n].text = << >>

(***************************************************************************)
(* C11.  A call of assign_labels_to_grid leaves the candidate list, the    *)
(* bounds, the layout and the size catalog as they were, and a second call *)
(* on them returns the Grid Assignment (and Cell Boundary map) the first   *)
(* call returned.                                                          *)
(***************************************************************************)
InputsKept ==
    /\ labels' = labels /\ case_bounds' = case_bounds
    /\ layout' = layout /\ drawer_sizes' = drawer_sizes

DistinctAreas ==
    \A i, j \in DOMAIN labels : labels[i].area = labels[j].area => i = j

SameAssignment ==
    /\ DOMAIN grid_labels' = DOMAIN grid_labels
    /\ \A k \in DOMAIN grid_labels :
          labels'[grid_labels'[k]] = labels[grid_labels[k]]

C18_OrderOnlyThroughTies ==
    [][pc = "mapper_done" /\ pc' = "mapper_permuted" /\ DistinctAreas =>
          SameAssignment /\ grid_info' = grid_info]_vars

\* after a call on a reordered list: two candidates of different areas
\* qualified for one cell and the cell holds the second of the list
C18_Witness ==
    /\ pc = "mapper_permuted" /\ DistinctAreas
    /\ \E k \in DOMAIN grid_labels :
          Qualified(k) = {1, 2} /\ grid_labels[k] = 2

(***************************************************************************)
(* C12.  With no output size given, perspective_transform returns bounds   *)
(* (0, 0, width, height) where width is the larger of the lengths of the   *)
(* top and bottom edges and height the larger of the lengths of the left   *)
(* and right edges of the corner quadrilateral, each cut down to its       *)
(* integer part.                                                           *)
(***************************************************************************)
\* squares of the larger horizontal and of the larger vertical edge length
LongerHorizontal2 ==
    Max(Norm2(corners.val["tr"], corners.val["tl"]),
        Norm2(corners.val["br"], corners.val["bl"]))

LongerVertical2 ==
    Max(Norm2(corners.val["bl"], corners.val["tl"]),
        Norm2(corners.val["br"], corners.val["tr"]))

\* n is the integer part of the square root of sq
IsFloorOfRoot(n, sq) == n >= 0 /\ n * n <= sq /\ sq < (n + 1) * (n + 1)

\* n is the integer nearest to the square root of sq
IsNearestToRoot(n, sq) ==
    /\ n >= 0
    /\ (2 * n - 1) * (2 * n - 1) <= 4 * sq \/ n = 0
    /\ 4 * sq <= (2 * n + 1) * (2 * n + 1)

C12_TruncatedSize ==
    pc = "rectify_done" =>
        /\ case_bounds[1] = 0 /\ case_bounds[2] = 0
        /\ IsFloorOfRoot(case_bounds[3], LongerHorizontal2)
        /\ IsFloorOfRoot(case_bounds[4], LongerVertical2)

\* the claim as written: each length rounded to the nearest integer
C12_RoundedSize ==
    pc = "rectify_done" =>
        /\ case_bounds[1] = 0 /\ case_bounds[2] = 0
        /\ IsNearestToRoot(case_bounds[3], LongerHorizontal2)
        /\ IsNearestToRoot(case_bounds[4], LongerVertical2)

\* the bottom edge is longer than the top edge, the right edge longer than
\* the left edge, and the longer horizontal length has a fractional part
\* above one half
C12_Witness ==
    /\ pc = "rectify_done"
    /\ Norm2(corners.val["br"], corners.val["bl"]) > Norm2(corners.val["tr"], corners.val["tl"])
    /\ Norm2(corners.val["br"], corners.val["tr"]) > Norm2(corners.val["bl"], corners.val["tl"])
    /\ 4 * LongerHorizontal2 > (2 * case_bounds[3] + 1) * (2 * case_bounds[3] + 1)

(***************************************************************************)
(* C13.  When assign_labels_to_grid returns for a candidate list that is   *)
(* not empty, it returns with the Grid Assignment a Cell Boundary map with *)
(* exactly one boundary for each position of a Cell Definition whose size  *)
(* class is known, the rectangle of that cell; for an empty candidate list *)
(* it returns an empty Grid Assignment and no Cell Boundary map.           *)
(***************************************************************************)
Returned == Has("assign") /\ ~ Has("uncaught_exception")

KnownCells == DOMAIN LayoutData \ UnknownCells

\* entry p of the map is the rectangle of Cell Definition n
IsBoundaryOfCell(p, n) ==
    LET b    == BoundaryMap[p][2]
        u    == Scale(layout.val)
        size == size_map(drawer_sizes.val)[LayoutData[n].size]
    IN  /\ BoundaryMap[p][1] = KeyOf(n)
        /\ b.left * layout.val.columns =
              u * (case_bounds[1] * layout.val.columns
                   + (LayoutData[n].col - 1) * (case_bounds[3] - case_bounds[1]))
        /\ b.top * layout.val.rows =
              u * (case_bounds[2] * layout.val.rows
                   + (LayoutData[n].row - 1) * (case_bounds[4] - case_bounds[2]))
        /\ b.width * layout.val.columns =
              u * size.widthUnits * (case_bounds[3] - case_bounds[1])
        /\ b.height * layout.val.rows =
              u * size.heightUnits * (case_bounds[4] - case_bounds[2])
        /\ b.right = b.left + b.width /\ b.bottom = b.top + b.height

OneBoundaryPerKnownCell ==
    /\ grid_info # None
    /\ \A n \in KnownCells :
          Cardinality({p \in DOMAIN BoundaryMap : BoundaryMap[p][1] = KeyOf(n)}) = 1
    /\ \A p \in DOMAIN BoundaryMap :
          \E n \in KnownCells : IsBoundaryOfCell(p, n)

C13_BoundaryMapReturned ==
    Returned =>
        IF labels = << >>
        THEN grid_labels = EmptyDict /\ grid_info = None
        ELSE OneBoundaryPerKnownCell

\* the claim as written: the map is returned for an empty list as well
C13_BoundaryMapAlways == Returned => OneBoundaryPerKnownCell

\* the mapper returned for a candidate list that is not empty and a layout
\* with two cells of known and one cell of unknown size class
C13_Witness ==
    /\ Returned /\ labels # << >>
    /\ UnknownCells # {} /\ Len(BoundaryMap) = 2

(***************************************************************************)
(* C14.  Every Region Candidate returned by find_white_labels has width    *)
(* above 100, height above 20 and below 150, width above twice the height, *)
(* area above 3000, and a bounding box whose top edge is more than 50      *)
(* pixels below the top of the image and more than 100 pixels above its    *)
(* bottom; its centre is the centre of the box.                            *)
(***************************************************************************)
SizeTestsPassed(l) ==
    /\ l.w > 100 /\ l.h > 20 /\ l.h < 150 /\ l.w > 2 * l.h /\ l.area > 3000

C14_CandidateFilter ==
    pc = "labels_done" =>
        \A i \in DOMAIN labels :
            /\ SizeTestsPassed(labels[i])
            /\ labels[i].y > 50
            /\ labels[i].y < case_bounds[4] - 100
            /\ labels[i].cx = 2 * labels[i].x + labels[i].w
            /\ labels[i].cy = 2 * labels[i].y + labels[i].h

\* the claim as written, for the smallest margin at the left and right: the
\* bounding box does not reach the left or the right edge of the image
C14_AwayFromFourEdges ==
    pc = "labels_done" =>
        \A i \in DOMAIN labels :
            /\ SizeTestsPassed(labels[i])
            /\ labels[i].y > 50
            /\ labels[i].y < case_bounds[4] - 100
            /\ labels[i].x > 0
            /\ labels[i].x + labels[i].w < case_bounds[3]

\* two candidates were returned, one at the highest and one at the lowest
\* position the filter lets pass, the first of them at the left edge
C14_Witness ==
    /\ pc = "labels_done" /\ Len(labels) = 2
    /\ labels[1].y = 51 /\ labels[1].x = 0
    /\ labels[2].y = case_bounds[4] - 101

(***************************************************************************)
(* C15.  In the Corner Set find_aruco_markers returns, the point recorded  *)
(* for a marker identity is a point detected for that identity in the      *)
(* first of the four passes (raw, contrast-equalized, sharpened, upscaled) *)
(* that found the identity: a detection of the identity in a later pass    *)
(* never replaces it.                                                      *)
(***************************************************************************)
\* the marker identity of a logical corner, and which corner of the marker
\* (1 top-left, 2 top-right, 3 bottom-right, 4 bottom-left) is the case corner
IdentityOf(c) ==
    IF c = "tl" THEN 1 ELSE IF c = "br" THEN 2 ELSE IF c = "tr" THEN 3 ELSE 4

MarkerCornerOf(c) ==
    IF c = "tl" THEN 3 ELSE IF c = "tr" THEN 4 ELSE IF c = "bl" THEN 2 ELSE 1

PassesFinding(id) ==
    {p \in 1..4 : \E i \in DOMAIN detections.val[p] : detections.val[p][i].id = id}

FirstPassFinding(id) ==
    CHOOSE p \in PassesFinding(id) : \A q \in PassesFinding(id) : p <= q

\* pt is the case corner c of a detection of pass p, in the coordinates of
\* the image (pass 4 detects in the image scaled by 3/2)
DetectedIn(pt, c, p) ==
    \E i \in DOMAIN detections.val[p] :
        /\ detections.val[p][i].id = IdentityOf(c)
        /\ LET q == detections.val[p][i].corners[MarkerCornerOf(c)]
           IN  IF p = 4
               THEN 3 * pt[1] = 2 * q[1] /\ 3 * pt[2] = 2 * q[2]
               ELSE pt = q

C15_FirstPassKept ==
    pc = "detect_done" /\ corners # None =>
        \A c \in DOMAIN corners.val :
            /\ PassesFinding(IdentityOf(c)) # {}
            /\ DetectedIn(corners.val[c], c, FirstPassFinding(IdentityOf(c)))
            /\ \A p \in PassesFinding(IdentityOf(c)) :
                  p # FirstPassFinding(IdentityOf(c)) =>
                     ~ DetectedIn(corners.val[c], c, p)

\* a Corner Set was returned whose corners come from three different passes,
\* one of them the upscaled pass, and the top-left marker was detected again
\* after the pass that found it
C15_Witness ==
    /\ pc = "detect_done" /\ corners # None
    /\ Cardinality({FirstPassFinding(IdentityOf(c)) : c \in DOMAIN corners.val}) = 3
    /\ \E c \in DOMAIN corners.val : FirstPassFinding(IdentityOf(c)) = 4
    /\ Cardinality(PassesFinding(1)) > 1

(***************************************************************************)
(* C16.  In every Grid Assignment assign_labels_to_grid returns, each      *)
(* candidate of the list is held by at most one (row, column) key, and     *)
(* every key holds a candidate of the list.                                *)
(***************************************************************************)
C16_ConsumedAtMostOnce ==
    pc = "mapper_done" =>
        /\ \A k \in DOMAIN grid_labels : grid_labels[k] \in DOMAIN labels
        /\ \A i \in DOMAIN labels :
              Cardinality({k \in DOMAIN grid_labels : grid_labels[k] = i}) <= 1

\* two cells hold two candidates, and one of the candidates lies within the
\* grown bounds of the other cell as well
C16_Witness ==
    /\ Mapped
    /\ \E k1, k2 \in DOMAIN grid_labels :
          /\ k1 # k2
          /\ grid_labels[k1] # grid_labels[k2]
          /\ InGrown(grid_labels[k1], BoundaryOf(k2), LargerDim30(BoundaryOf(k2)),
                     LargerDim30(BoundaryOf(k2)))

(***************************************************************************)
(* C17.  When every Cell Definition is a 1x1-unit cell, a candidate is     *)
(* accepted only under a Cell Definition: under the uniform cell that      *)
(* contains its centre when that cell is a Cell Definition, and otherwise  *)
(* under the Cell Definition with the nearest centre, provided its centre  *)
(* lies within that cell's bounds grown by 30% of the larger of the cell's *)
(* width and height (it then holds the cell unless another candidate beats *)
(* it); a candidate whose uniform cell is not a Cell Definition and which  *)
(* fails that test appears under no cell.                                  *)
(***************************************************************************)
Clamp(v, lo, hi) == IF v < lo THEN lo ELSE IF v > hi THEN hi ELSE v

\* the uniform cell containing the centre of label i: the centre offset
\* divided by the uniform cell width and height, clamped, 1-indexed
UniformCell(i) ==
    LET c == ((labels[i].cx - 2 * case_bounds[1]) * layout.val.columns)
                \div (2 * (case_bounds[3] - case_bounds[1]))
        r == ((labels[i].cy - 2 * case_bounds[2]) * layout.val.rows)
                \div (2 * (case_bounds[4] - case_bounds[2]))
    IN  << Clamp(r, 0, layout.val.rows - 1) + 1,
           Clamp(c, 0, layout.val.columns - 1) + 1 >>

Holders(i) == {k \in DOMAIN grid_labels : grid_labels[k] = i}

C17_UniformRefinement ==
    Mapped /\ Uniform =>
        \A i \in DOMAIN labels :
            /\ \A k \in Holders(i) : Defined(k)
            /\ Defined(UniformCell(i)) => Holders(i) \subseteq {UniformCell(i)}
            /\ ~ Defined(UniformCell(i)) =>
                  \A p \in DOMAIN BoundaryMap :
                     IsNearest(i, p) =>
                        IF InGrown(i, BoundaryMap[p][2],
                                   LargerDim30(BoundaryMap[p][2]),
                                   LargerDim30(BoundaryMap[p][2]))
                        THEN /\ BoundaryMap[p][1] \in DOMAIN grid_labels
                             /\ Holders(i) \subseteq {BoundaryMap[p][1]}
                             /\ \/ grid_labels[BoundaryMap[p][1]] = i
                                \/ Beats(grid_labels[BoundaryMap[p][1]], i)
                        ELSE Holders(i) = {}

\* the claim as written: a candidate is accepted only if its uniform cell
\* is a Cell Definition
C17_UniformCellOnly ==
    Mapped /\ Uniform =>
        \A i \in DOMAIN labels :
            Holders(i) # {} => Defined(UniformCell(i))

\* in a layout of 1x1 cells a candidate whose uniform cell is not a Cell
\* Definition is held by a neighbouring cell, and another such candidate is
\* held by none
C17_Witness ==
    /\ Mapped /\ Uniform
    /\ \E i, j \in DOMAIN labels :
          /\ ~ Defined(UniformCell(i)) /\ Holders(i) # {}
          /\ ~ Defined(UniformCell(j)) /\ Holders(j) = {}
          /\ BoundaryMap # << >>

====
